---- MODULE Spec2Model ----
(***************************************************************************)
(* jurisdiction-rs: the build script (build.rs) that compiles the          *)
(* country/region dataset into the generated alpha, region and definition  *)
(* modules, the lazily built DEFINITIONS registry (src/definition.rs) and  *)
(* the Jurisdiction handle with its constructors, accessors, comparisons   *)
(* and reverse queries (src/jurisdiction.rs, src/region.rs).               *)
(*                                                                         *)
(* Representation.                                                         *)
(*   - A numeric text of the dataset (country-code, region-code, ...) is a *)
(*     sequence of one-character strings, so that u16::from_str is         *)
(*     computed digit by digit.  Every other text is a TLA+ string; the    *)
(*     only thing the code does with those is compare them exactly.        *)
(*   - A variant of a generated enum (Alpha2, Alpha3) is its position in   *)
(*     the generated enum body; its text is the identifier at that place.  *)
(*   - A variant of a fixed enum of src/region.rs is its identifier.       *)
(*   - Option<u16> is <<>> (None) or <<n>> (Some(n)).                      *)
(*   - A &'static Definition is an index into GENERATED_DEFINITIONS.       *)
(***************************************************************************)
EXTENDS Naturals, Sequences, FiniteSets, TLC

(***************************************************************************)
(* Bounds of the model.                                                    *)
(***************************************************************************)
\* Number of records appended to the base dataset.
MaxExtra == 2

\* The HashMap iteration orders tried: the keys in declaration order
\* rotated by up to MaxShift places (and one more), and reversed.
MaxShift == 1

\* u16::MAX
U16Max == 65535

(***************************************************************************)
(* src/region.rs: the three fixed enums and their serde names.             *)
(***************************************************************************)
\* enum Region, in declaration order.
Region == <<"Africa", "Asia", "Europe", "Oceania", "Americas", "Undefined">>

\* enum SubRegion, in declaration order.
SubRegion ==
    <<"NorthernAfrica", "SubSaharanAfrica", "EasternAsia", "SouthernAsia",
      "SouthEasternAsia", "WesternAsia", "CentralAsia", "NorthernAmerica",
      "LatinAmericaAndTheCaribbean", "NorthernEurope", "EasternEurope",
      "SouthernEurope", "WesternEurope", "Polynesia", "Melanesia",
      "Micronesia", "AustraliaAndNewZealand", "Undefined">>

\* enum IntermediateRegion, in declaration order.
IntermediateRegion ==
    <<"EasternAfrica", "MiddleAfrica", "SouthernAfrica", "WesternAfrica",
      "Caribbean", "CentralAmerica", "SouthAmerica", "ChannelIslands",
      "Undefined">>

Range(s) == {s[i] : i \in DOMAIN s}

\* Deserialize for Region: the variant named by the text, #[serde(other)]
\* Undefined for every other text.
RegionDeserialize(t) ==
    IF t \in {"Africa", "Asia", "Europe", "Oceania", "Americas"} THEN t
    ELSE "Undefined"

\* Deserialize for SubRegion: #[serde(rename = ...)] names, the bare variant
\* name where there is no rename, #[serde(other)] Undefined otherwise.
SubRegionDeserialize(t) ==
    CASE t = "Northern Africa" -> "NorthernAfrica"
      [] t = "Sub-Saharan Africa" -> "SubSaharanAfrica"
      [] t = "Eastern Asia" -> "EasternAsia"
      [] t = "Southern Asia" -> "SouthernAsia"
      [] t = "South-eastern Asia" -> "SouthEasternAsia"
      [] t = "Western Asia" -> "WesternAsia"
      [] t = "Central Asia" -> "CentralAsia"
      [] t = "Northern America" -> "NorthernAmerica"
      [] t = "Latin America and the Caribbean" -> "LatinAmericaAndTheCaribbean"
      [] t = "Northern Europe" -> "NorthernEurope"
      [] t = "Eastern Europe" -> "EasternEurope"
      [] t = "Southern Europe" -> "SouthernEurope"
      [] t = "Western Europe" -> "WesternEurope"
      [] t = "Polynesia" -> "Polynesia"
      [] t = "Melanesia" -> "Melanesia"
      [] t = "Micronesia" -> "Micronesia"
      [] t = "Australia and New Zealand" -> "AustraliaAndNewZealand"
      [] OTHER -> "Undefined"

\* Deserialize for IntermediateRegion.
IntermediateRegionDeserialize(t) ==
    CASE t = "Eastern Africa" -> "EasternAfrica"
      [] t = "Middle Africa" -> "MiddleAfrica"
      [] t = "Southern Africa" -> "SouthernAfrica"
      [] t = "Western Africa" -> "WesternAfrica"
      [] t = "Caribbean" -> "Caribbean"
      [] t = "Central America" -> "CentralAmerica"
      [] t = "South America" -> "SouthAmerica"
      [] t = "Channel Islands" -> "ChannelIslands"
      [] OTHER -> "Undefined"

(***************************************************************************)
(* u16::from_str, as build.rs uses it on the numeric texts.                *)
(***************************************************************************)
Digits == {"0", "1", "2", "3", "4", "5", "6", "7", "8", "9"}

DigitVal(c) ==
    CASE c = "0" -> 0 [] c = "1" -> 1 [] c = "2" -> 2 [] c = "3" -> 3
      [] c = "4" -> 4 [] c = "5" -> 5 [] c = "6" -> 6 [] c = "7" -> 7
      [] c = "8" -> 8 [] c = "9" -> 9

\* The value of a digit sequence, most significant digit first.
RECURSIVE DecimalValue(_)
DecimalValue(ds) ==
    IF ds = <<>> THEN 0
    ELSE 10 * DecimalValue(SubSeq(ds, 1, Len(ds) - 1)) + DigitVal(ds[Len(ds)])

ParseOk(v) == [ok |-> TRUE, val |-> v]
ParseErr == [ok |-> FALSE, val |-> 0]

\* u16::from_str(s): an optional leading "+", then one or more decimal
\* digits whose value fits 16 bits; anything else is an Err.
U16FromStr(s) ==
    LET body == IF s # <<>> /\ s[1] = "+" THEN Tail(s) ELSE s
    IN  IF body = <<>> \/ \E i \in DOMAIN body : body[i] \notin Digits
        THEN ParseErr
        ELSE IF DecimalValue(body) > U16Max THEN ParseErr
        ELSE ParseOk(DecimalValue(body))

\* Result::unwrap_or(0)
UnwrapOr0(r) == IF r.ok THEN r.val ELSE 0

(***************************************************************************)
(* The dataset: data/country-region.json, one object per jurisdiction,     *)
(* read by build.rs into Vec<CountryRegionDefinition>.                     *)
(***************************************************************************)
\* One object of the dataset; the hierarchy names are still texts.
Record(name, a2, a3, cc, reg, sub, int, rc, sc, irc) ==
    [name |-> name, alpha2 |-> a2, alpha3 |-> a3, country_code |-> cc,
     region |-> reg, sub_region |-> sub, intermediate_region |-> int,
     region_code |-> rc, sub_region_code |-> sc,
     intermediate_region_code |-> irc]

\* A dataset in the form of the repository's: every variant of Region,
\* SubRegion and IntermediateRegion is carried by some record.
BaseDataset ==
    <<
      Record("Norway", "NO", "NOR", <<"5", "7", "8">>,
             "Europe", "Northern Europe", "",
             <<"1", "5", "0">>, <<"1", "5", "4">>, <<>>),
      Record("Antarctica", "AQ", "ATA", <<"0", "1", "0">>,
             "", "", "",
             <<>>, <<>>, <<>>),
      Record("Angola", "AO", "AGO", <<"0", "2", "4">>,
             "Africa", "Sub-Saharan Africa", "Middle Africa",
             <<"0", "0", "2">>, <<"2", "0", "2">>, <<"0", "1", "7">>),
      Record("Egypt", "EG", "EGY", <<"8", "1", "8">>,
             "Africa", "Northern Africa", "",
             <<"0", "0", "2">>, <<"0", "1", "5">>, <<>>),
      Record("Kenya", "KE", "KEN", <<"4", "0", "4">>,
             "Africa", "Sub-Saharan Africa", "Eastern Africa",
             <<"0", "0", "2">>, <<"2", "0", "2">>, <<"0", "1", "4">>),
      Record("South Africa", "ZA", "ZAF", <<"7", "1", "0">>,
             "Africa", "Sub-Saharan Africa", "Southern Africa",
             <<"0", "0", "2">>, <<"2", "0", "2">>, <<"0", "1", "8">>),
      Record("Nigeria", "NG", "NGA", <<"5", "6", "6">>,
             "Africa", "Sub-Saharan Africa", "Western Africa",
             <<"0", "0", "2">>, <<"2", "0", "2">>, <<"0", "1", "1">>),
      Record("Japan", "JP", "JPN", <<"3", "9", "2">>,
             "Asia", "Eastern Asia", "",
             <<"1", "4", "2">>, <<"0", "3", "0">>, <<>>),
      Record("India", "IN", "IND", <<"3", "5", "6">>,
             "Asia", "Southern Asia", "",
             <<"1", "4", "2">>, <<"0", "3", "4">>, <<>>),
      Record("Thailand", "TH", "THA", <<"7", "6", "4">>,
             "Asia", "South-eastern Asia", "",
             <<"1", "4", "2">>, <<"0", "3", "5">>, <<>>),
      Record("Turkey", "TR", "TUR", <<"7", "9", "2">>,
             "Asia", "Western Asia", "",
             <<"1", "4", "2">>, <<"1", "4", "5">>, <<>>),
      Record("Kazakhstan", "KZ", "KAZ", <<"3", "9", "8">>,
             "Asia", "Central Asia", "",
             <<"1", "4", "2">>, <<"1", "4", "3">>, <<>>),
      Record("Canada", "CA", "CAN", <<"1", "2", "4">>,
             "Americas", "Northern America", "",
             <<"0", "1", "9">>, <<"0", "2", "1">>, <<>>),
      Record("Cuba", "CU", "CUB", <<"1", "9", "2">>,
             "Americas", "Latin America and the Caribbean", "Caribbean",
             <<"0", "1", "9">>, <<"4", "1", "9">>, <<"0", "2", "9">>),
      Record("Mexico", "MX", "MEX", <<"4", "8", "4">>,
             "Americas", "Latin America and the Caribbean", "Central America",
             <<"0", "1", "9">>, <<"4", "1", "9">>, <<"0", "1", "3">>),
      Record("Brazil", "BR", "BRA", <<"0", "7", "6">>,
             "Americas", "Latin America and the Caribbean", "South America",
             <<"0", "1", "9">>, <<"4", "1", "9">>, <<"0", "0", "5">>),
      Record("Jersey", "JE", "JEY", <<"8", "3", "2">>,
             "Europe", "Northern Europe", "Channel Islands",
             <<"1", "5", "0">>, <<"1", "5", "4">>, <<"8", "3", "0">>),
      Record("Poland", "PL", "POL", <<"6", "1", "6">>,
             "Europe", "Eastern Europe", "",
             <<"1", "5", "0">>, <<"1", "5", "1">>, <<>>),
      Record("Italy", "IT", "ITA", <<"3", "8", "0">>,
             "Europe", "Southern Europe", "",
             <<"1", "5", "0">>, <<"0", "3", "9">>, <<>>),
      Record("France", "FR", "FRA", <<"2", "5", "0">>,
             "Europe", "Western Europe", "",
             <<"1", "5", "0">>, <<"1", "5", "5">>, <<>>),
      Record("Samoa", "WS", "WSM", <<"8", "8", "2">>,
             "Oceania", "Polynesia", "",
             <<"0", "0", "9">>, <<"0", "6", "1">>, <<>>),
      Record("Fiji", "FJ", "FJI", <<"2", "4", "2">>,
             "Oceania", "Melanesia", "",
             <<"0", "0", "9">>, <<"0", "5", "4">>, <<>>),
      Record("Palau", "PW", "PLW", <<"5", "8", "5">>,
             "Oceania", "Micronesia", "",
             <<"0", "0", "9">>, <<"0", "5", "7">>, <<>>),
      Record("Australia", "AU", "AUS", <<"0", "3", "6">>,
             "Oceania", "Australia and New Zealand", "",
             <<"0", "0", "9">>, <<"0", "5", "3">>, <<>>)
    >>

\* Records a dataset may hold besides: a numeric country code that another
\* record carries, a repeated alpha code, a country code that is no u16,
\* hierarchy names outside the fixed lists, unparseable hierarchy codes.
ExtraRecords ==
    {
      Record("Nowhere", "XA", "XAA", <<"5", "7", "8">>,
             "Asia", "Eastern Asia", "",
             <<"1", "4", "2">>, <<"0", "3", "0">>, <<"9", "1", "1">>),
      Record("Atlantis", "XB", "XBB", <<"1", "0">>,
             "Europe", "Western Europe", "",
             <<"1", "5", "0">>, <<"1", "5", "5">>, <<"9", "x">>),
      Record("Norway Two", "NO", "XCC", <<"9", "0", "0">>,
             "Europe", "Northern Europe", "",
             <<"1", "5", "0">>, <<"1", "5", "4">>, <<>>),
      Record("Norway Three", "XD", "NOR", <<"9", "0", "1">>,
             "Europe", "Northern Europe", "",
             <<"1", "5", "0">>, <<"1", "5", "4">>, <<>>),
      Record("Overflow", "XE", "XEE", <<"7", "0", "0", "0", "0">>,
             "Europe", "Northern Europe", "",
             <<"1", "5", "0">>, <<"1", "5", "4">>, <<>>),
      Record("Garbage", "XF", "XFF", <<"5", "7", "x">>,
             "Europe", "Northern Europe", "",
             <<"1", "5", "0">>, <<"1", "5", "4">>, <<>>),
      Record("Lemuria", "XG", "XGG", <<"9", "9", "9">>,
             "Lemuria", "northern europe", "Channel islands",
             <<"a", "b", "c">>, <<"9", "9", "9", "9", "9">>, <<"9", "1", "1">>),
      Record("Lowland", "XH", "XHH", <<"+", "4", "0">>,
             "", "Northern Europe", "Channel Islands",
             <<"1", "5", "0">>, <<"1", "5", "4">>, <<"0">>),
      Record("Norland", "NOR", "XJJ", <<"9", "0", "2">>,
             "Europe", "Northern Europe", "",
             <<"1", "5", "0">>, <<"1", "5", "4">>, <<>>)
    }

\* Texts handed to Jurisdiction::from_str.
Texts ==
    {"NO", "NOR", "AQ", "ATA", "XA",
     "no", "No", " NO", "NO ", "NOR ", "", "rofl", "578", "Norway"}

RECURSIVE SeqsUpTo(_, _)
\* The sequences over S of length at most n.
SeqsUpTo(S, n) ==
    IF n = 0 THEN {<<>>}
    ELSE LET shorter == SeqsUpTo(S, n - 1)
         IN  shorter \cup {Append(s, x) : s \in shorter, x \in S}

\* The datasets of the model: the base dataset, whole or without its last
\* record (AustraliaAndNewZealand is then carried by no record), followed
\* by at most MaxExtra further records.
Datasets ==
    {prefix \o tail :
        prefix \in {BaseDataset, SubSeq(BaseDataset, 1, Len(BaseDataset) - 1)},
        tail \in SeqsUpTo(ExtraRecords, MaxExtra)}

\* serde_json::from_reader into Vec<CountryRegionDefinition>: the three
\* hierarchy names are deserialized into the enums of src/region.rs, every
\* other field stays a String.
CountryRegionDefinition(r) ==
    [r EXCEPT !.region = RegionDeserialize(r.region),
              !.sub_region = SubRegionDeserialize(r.sub_region),
              !.intermediate_region =
                  IntermediateRegionDeserialize(r.intermediate_region)]

Deserialize(file) == [i \in DOMAIN file |-> CountryRegionDefinition(file[i])]

(***************************************************************************)
(* build.rs: the generators.  `definitions` is the deserialized dataset.   *)
(***************************************************************************)
\* u16::from_str(&def.country_code), before the expect.
CountryCode(def) == U16FromStr(def.country_code)

\* ExpectPanics as it would be if the region code and the sub-region code
\* went through an expect as the country code does.
ExpectPanicsOnEveryCode(definitions) ==
    \E i \in DOMAIN definitions :
        \/ ~U16FromStr(definitions[i].country_code).ok
        \/ ~U16FromStr(definitions[i].region_code).ok
        \/ ~U16FromStr(definitions[i].sub_region_code).ok

\* The expect("country code not representable as u16") of every generator
\* panics on the first record whose country code is no u16.
ExpectPanics(definitions) ==
    \E i \in DOMAIN definitions : ~CountryCode(definitions[i]).ok

\* One arm of a generated From match: Alpha::#a => #cc.
FromArm(ident, cc) == [ident |-> ident, cc |-> cc]

\* generate_alpha2: the enum body and the From match body, both in dataset
\* order.
generate_alpha2(definitions) ==
    [enum_body |-> [i \in DOMAIN definitions |-> definitions[i].alpha2],
     from_match_body |->
        [i \in DOMAIN definitions |->
            FromArm(definitions[i].alpha2, CountryCode(definitions[i]).val)]]

\* generate_alpha3
generate_alpha3(definitions) ==
    [enum_body |-> [i \in DOMAIN definitions |-> definitions[i].alpha3],
     from_match_body |->
        [i \in DOMAIN definitions |->
            FromArm(definitions[i].alpha3, CountryCode(definitions[i]).val)]]

\* generate_alpha
generate_alpha(definitions) ==
    [alpha2 |-> generate_alpha2(definitions),
     alpha3 |-> generate_alpha3(definitions)]

\* The indices of the records whose field `level` is `key`, ascending.
IndicesOf(definitions, level, key) ==
    SelectSeq([i \in DOMAIN definitions |-> i],
              LAMBDA i : definitions[i][level] = key)

\* The first loop of generate_region for one level: a HashMap from each
\* variant some record carries to the country codes pushed for it, which
\* are its records' codes in dataset order.
GatherCodes(definitions, level) ==
    [key \in {definitions[i][level] : i \in DOMAIN definitions} |->
        LET at == IndicesOf(definitions, level, key)
        IN  [j \in DOMAIN at |-> CountryCode(definitions[at[j]]).val]]

Reverse(s) == [i \in DOMAIN s |-> s[Len(s) + 1 - i]]

Rotate(s, k) == [i \in DOMAIN s |-> s[((i - 1 + k) % Len(s)) + 1]]

\* Iterating a std HashMap (RandomState) yields every key once, in an
\* order the code does not choose and that differs from run to run and
\* from map to map: any arrangement of the keys.
HashIter(map) ==
    {order \in Seq(DOMAIN map) :
        /\ Len(order) = Cardinality(DOMAIN map)
        /\ \A k \in DOMAIN map : \E n \in DOMAIN order : order[n] = k}

\* The keys of `map` in the order in which the enum `variants` declares
\* them.
KeysOf(map, variants) == SelectSeq(variants, LAMBDA k : k \in DOMAIN map)

\* The iteration orders of `map` that are tried.
HashOrders(map, variants) ==
    LET keys == KeysOf(map, variants)
    IN  {Rotate(keys, k) : k \in 0..MaxShift} \cup {Reverse(keys)}

\* One arm of a generated jurisdictions() match:
\*   Level::#i => vec![Jurisdiction::new(#code), ...],
RegionArm(ident, codes) == [ident |-> ident, codes |-> codes]

\* The match body of one level: one arm per key of `codes`, the map
\* gathered for the level, its
\* identifier the Debug form of the variant, its codes in push order.  The
\* arms follow each other in `order`, the order in which the
\* HashMap<Ident, TokenStream> happens to be iterated, one of HashIter.
MatchBody(codes, order) ==
    [n \in DOMAIN order |-> RegionArm(order[n], codes[order[n]])]

\* generate_region: `orders` gives the iteration order at each of the
\* three levels, each independent of the others.
generate_region(definitions, orders) ==
    LET regions == GatherCodes(definitions, "region")
        subs == GatherCodes(definitions, "sub_region")
        intermediates == GatherCodes(definitions, "intermediate_region")
    IN  [region_body |-> MatchBody(regions, orders.region),
         sub_body |-> MatchBody(subs, orders.sub_region),
         intermediate_body |->
            MatchBody(intermediates, orders.intermediate_region)]

\* The iteration orders tried for one run of generate_region: each run
\* iterates the maps of the three levels in orders unrelated to one
\* another.
RegionOrders(definitions) ==
    LET r == KeysOf(GatherCodes(definitions, "region"), Region)
        s == KeysOf(GatherCodes(definitions, "sub_region"), SubRegion)
        i == KeysOf(GatherCodes(definitions, "intermediate_region"),
                    IntermediateRegion)
    IN  {[region |-> Rotate(r, k),
          sub_region |-> Rotate(s, k + 1),
          intermediate_region |-> Reverse(Rotate(i, k))] :
            k \in 0..MaxShift}
        \cup {[region |-> Reverse(r),
               sub_region |-> Reverse(s),
               intermediate_region |-> i]}

\* The arms of a generated `match *self { ... }`.  Its patterns are
\* distinct unit variants, so the match is the collection of its arms: the
\* order in which they were written has no part in it.
Arms(body) == {body[n] : n \in DOMAIN body}

\* region.rs as the crate is compiled from it: the arms of the three
\* matches.
RegionMatches(tokens) ==
    [region_body |-> Arms(tokens.region_body),
     sub_body |-> Arms(tokens.sub_body),
     intermediate_body |-> Arms(tokens.intermediate_body)]

None == <<>>
Some(n) == <<n>>

\* The Definition literal generate_definition emits for one record.
DefinitionTokens(def) ==
    LET rc == UnwrapOr0(U16FromStr(def.region_code))
        sc == UnwrapOr0(U16FromStr(def.sub_region_code))
        irc == UnwrapOr0(U16FromStr(def.intermediate_region_code))
    IN  [country_code |-> CountryCode(def).val,
         name |-> def.name,
         alpha2 |-> def.alpha2,
         alpha3 |-> def.alpha3,
         region |-> def.region,
         sub_region |-> def.sub_region,
         intermediate_region |-> def.intermediate_region,
         region_code |-> rc,
         sub_region_code |-> sc,
         intermediate_region_code |-> IF irc = 0 THEN None ELSE Some(irc)]

\* generate_definition: GENERATED_DEFINITIONS, in dataset order.
generate_definition(definitions) ==
    [i \in DOMAIN definitions |-> DefinitionTokens(definitions[i])]

(***************************************************************************)
(* Compiling the crate with the generated modules.                         *)
(***************************************************************************)
Distinct(s) == \A i, j \in DOMAIN s : s[i] = s[j] => i = j

\* A variant named twice is a compile error; assert_eq_size!(Alpha, u8) of
\* src/lib.rs needs an enum of 2 to 256 variants.
AlphaEnumCompiles(enum_body) ==
    /\ Distinct(enum_body)
    /\ Len(enum_body) >= 2
    /\ Len(enum_body) <= 256

\* match *self { ... } over a fixed enum compiles when every variant has an
\* arm.
MatchExhaustive(body, variants) ==
    \A v \in Range(variants) : \E arm \in body : arm.ident = v

CrateCompiles(alpha, region) ==
    /\ AlphaEnumCompiles(alpha.alpha2.enum_body)
    /\ AlphaEnumCompiles(alpha.alpha3.enum_body)
    /\ MatchExhaustive(region.region_body, Region)
    /\ MatchExhaustive(region.sub_body, SubRegion)
    /\ MatchExhaustive(region.intermediate_body, IntermediateRegion)

(***************************************************************************)
(* State.                                                                  *)
(***************************************************************************)
Threads == {"t1", "t2"}

VARIABLES
    file,           \* data/country-region.json: a sequence of Records
    pc,             \* where the build stands: "alpha", "region",
                    \* "definition" (build.rs main), "rustc", then "built",
                    \* "panicked" (build.rs) or "rejected" (the compiler)
    written,        \* the generated files written so far
    alpha_rs,       \* generated alpha.rs
    region_rs,      \* generated region.rs: the arms of its three matches
    definition_rs,  \* generated definition.rs: GENERATED_DEFINITIONS
    once,           \* the Once of lazy_static's DEFINITIONS
    DEFINITIONS,    \* the HashMap<u16, &'static Definition> behind it
    builds,         \* how many times its initializer block has been entered
    tpc,            \* per thread: "idle", "init" (inside the initializer
                    \* block), "blocked" (waiting on the Once)
    map,            \* per thread: `map` of the initializer block
    cursor,         \* per thread: the next element of the initializer's loop
    observed,       \* per thread: <<>>, or <<the table>> its dereference got
                    \* when it returned from Once::call_once
    last            \* the latest call of the public API and its result

vars == <<file, pc, written, alpha_rs, region_rs, definition_rs, once,
          DEFINITIONS, builds, tpc, map, cursor, observed, last>>

buildVars == <<file, pc, written, alpha_rs, region_rs, definition_rs>>
lazyVars == <<once, DEFINITIONS, builds, map, cursor, observed>>

\* The empty HashMap.
EmptyMap == <<>>

\* No call yet.
NoCall ==
    [op |-> "none", arg |-> <<>>, ok |-> TRUE,
     handles |-> <<>>, eq |-> FALSE, err |-> <<>>, parsed |-> <<>>]

Init ==
    /\ file \in Datasets
    /\ pc = "alpha"
    /\ written = {}
    /\ alpha_rs = generate_alpha(<<>>)
    /\ region_rs =
          RegionMatches(generate_region(<<>>,
              [region |-> <<>>, sub_region |-> <<>>,
               intermediate_region |-> <<>>]))
    /\ definition_rs = <<>>
    /\ once = "INCOMPLETE"
    /\ DEFINITIONS = EmptyMap
    /\ builds = 0
    /\ tpc = [t \in Threads |-> "idle"]
    /\ map = [t \in Threads |-> EmptyMap]
    /\ cursor = [t \in Threads |-> 1]
    /\ observed = [t \in Threads |-> <<>>]
    /\ last = NoCall

(***************************************************************************)
(* build.rs main, one action per generated file, then the compiler.        *)
(***************************************************************************)
runtimeVars == <<once, DEFINITIONS, builds, tpc, map, cursor, observed, last>>

\* main up to the write of alpha.rs.  A country code that is no u16 panics
\* in generate_alpha2, before any file is created.
MainAlpha ==
    /\ pc = "alpha"
    /\ LET definitions == Deserialize(file)
       IN  IF ExpectPanics(definitions)
           THEN /\ pc' = "panicked"
                /\ UNCHANGED <<written, alpha_rs>>
           ELSE /\ alpha_rs' = generate_alpha(definitions)
                /\ written' = written \cup {"alpha.rs"}
                /\ pc' = "region"
    /\ UNCHANGED <<file, region_rs, definition_rs, runtimeVars>>

\* main: generate_region and the write of region.rs.  The HashMaps are
\* iterated in orders the code does not choose; what the crate is compiled
\* from, the arms of each match, is the same for every one of them.
MainRegion ==
    /\ pc = "region"
    /\ LET definitions == Deserialize(file)
           regions == GatherCodes(definitions, "region")
           subs == GatherCodes(definitions, "sub_region")
           intermediates == GatherCodes(definitions, "intermediate_region")
       IN  \E orders \in RegionOrders(definitions) :
              /\ orders.region \in HashIter(regions)
              /\ orders.sub_region \in HashIter(subs)
              /\ orders.intermediate_region \in HashIter(intermediates)
              /\ region_rs' =
                    RegionMatches(generate_region(definitions, orders))
    /\ written' = written \cup {"region.rs"}
    /\ pc' = "definition"
    /\ UNCHANGED <<file, alpha_rs, definition_rs, runtimeVars>>

\* main: generate_definition and the write of definition.rs.
MainDefinition ==
    /\ pc = "definition"
    /\ definition_rs' = generate_definition(Deserialize(file))
    /\ written' = written \cup {"definition.rs"}
    /\ pc' = "rustc"
    /\ UNCHANGED <<file, alpha_rs, region_rs, runtimeVars>>

\* The crate is compiled with the generated modules.
Rustc ==
    /\ pc = "rustc"
    /\ pc' = IF CrateCompiles(alpha_rs, region_rs) THEN "built" ELSE "rejected"
    /\ UNCHANGED <<file, written, alpha_rs, region_rs, definition_rs,
                   runtimeVars>>

(***************************************************************************)
(* The compiled crate: generated enums and matches, src/definition.rs.     *)
(***************************************************************************)
GENERATED_DEFINITIONS == definition_rs

\* enum Alpha2 / enum Alpha3: the variants, as positions of the enum body.
Alpha2 == DOMAIN alpha_rs.alpha2.enum_body
Alpha3 == DOMAIN alpha_rs.alpha3.enum_body

\* The variant an identifier path Alpha::#ident of the generated code names.
VariantOf(enum_body, ident) ==
    CHOOSE v \in DOMAIN enum_body : enum_body[v] = ident

\* Display for Alpha2 / Alpha3: serde_plain::to_string, the variant's name.
AlphaToString(enum_body, v) == enum_body[v]

\* The text a parse that ignored case and surrounding blanks would look up.
Normalized(s) ==
    CASE s \in {"no", "No", " NO", "NO "} -> "NO"
      [] s = "NOR " -> "NOR"
      [] OTHER -> s

\* AlphaFromStr as it would be with such a normalization before the match.
AlphaFromStrNormalizing(enum_body, s) ==
    IF \E v \in DOMAIN enum_body : enum_body[v] = Normalized(s)
    THEN ParseOk(CHOOSE v \in DOMAIN enum_body : enum_body[v] = Normalized(s))
    ELSE ParseErr

\* serde_plain::from_str::<Alpha>(s): Ok(the variant whose name is exactly
\* s), Err when there is none.
AlphaFromStr(enum_body, s) ==
    IF \E v \in DOMAIN enum_body : enum_body[v] = s
    THEN ParseOk(CHOOSE v \in DOMAIN enum_body : enum_body[v] = s)
    ELSE ParseErr

\* The generated `match alpha { Alpha::#a => #cc, ... }`: the country code
\* of the first arm that names the variant.
MatchAlpha(alpha, v) ==
    LET ident == alpha.enum_body[v]
        n == CHOOSE n \in DOMAIN alpha.from_match_body :
                /\ alpha.from_match_body[n].ident = ident
                /\ \A m \in 1..(n - 1) : alpha.from_match_body[m].ident # ident
    IN  alpha.from_match_body[n].cc

\* HashMap::insert: the value of an existing key is replaced.
HashMapInsert(m, key, value) ==
    [k \in DOMAIN m \cup {key} |-> IF k = key THEN value ELSE m[k]]

\* A Jurisdiction, or the panic of the unwrap in Jurisdiction::new.
Handle(d) == [panic |-> FALSE, definition |-> d]
Panic == [panic |-> TRUE, definition |-> 0]

\* Jurisdiction::new on the table the dereference of DEFINITIONS gave.
new(table, country_code) ==
    IF country_code \in DOMAIN table THEN Handle(table[country_code])
    ELSE Panic

\* impl From<Alpha2> for Jurisdiction / impl From<Alpha3> for Jurisdiction
FromAlpha2(table, a) == new(table, MatchAlpha(alpha_rs.alpha2, a))
FromAlpha3(table, a) == new(table, MatchAlpha(alpha_rs.alpha3, a))

\* The accessors: reads through the handle's reference.
name(h) == GENERATED_DEFINITIONS[h.definition].name
country_code(h) == GENERATED_DEFINITIONS[h.definition].country_code
alpha2(h) ==
    VariantOf(alpha_rs.alpha2.enum_body,
              GENERATED_DEFINITIONS[h.definition].alpha2)
alpha3(h) ==
    VariantOf(alpha_rs.alpha3.enum_body,
              GENERATED_DEFINITIONS[h.definition].alpha3)
region(h) == GENERATED_DEFINITIONS[h.definition].region
sub_region(h) == GENERATED_DEFINITIONS[h.definition].sub_region
intermediate_region(h) ==
    GENERATED_DEFINITIONS[h.definition].intermediate_region
region_code(h) == GENERATED_DEFINITIONS[h.definition].region_code
sub_region_code(h) == GENERATED_DEFINITIONS[h.definition].sub_region_code
intermediate_region_code(h) ==
    GENERATED_DEFINITIONS[h.definition].intermediate_region_code

\* PartialEq<Jurisdiction> for Jurisdiction
EqJurisdiction(h, other) == country_code(h) = country_code(other)

\* PartialEq<Alpha2> / PartialEq<Alpha3> for Jurisdiction
EqAlpha2(h, other) == alpha2(h) = other
EqAlpha3(h, other) == alpha3(h) = other

\* The format_err! of from_str: the format string and its argument.
UnrecognizedCode(s) == <<"unrecognized ISO 3166 alpha country code: {}", s>>

\* from_str as it would be with the two parses in the other order.
FromStrAlpha3First(table, s) ==
    LET a2 == AlphaFromStr(alpha_rs.alpha2.enum_body, s)
        a3 == AlphaFromStr(alpha_rs.alpha3.enum_body, s)
    IN  IF a3.ok
        THEN [ok |-> TRUE, handles |-> <<FromAlpha3(table, a3.val)>>,
              err |-> <<>>, parsed |-> <<"Alpha3">>]
        ELSE IF a2.ok
        THEN [ok |-> TRUE, handles |-> <<FromAlpha2(table, a2.val)>>,
              err |-> <<>>, parsed |-> <<"Alpha3", "Alpha2">>]
        ELSE [ok |-> FALSE, handles |-> <<>>, err |-> UnrecognizedCode(s),
              parsed |-> <<"Alpha3", "Alpha2">>]

\* Jurisdiction::from_str: the alpha2 parse, then the alpha3 parse, then
\* the error.  `parsed` lists the serde_plain::from_str calls made, in
\* order: the else-if branch is evaluated only when the first parse failed.
FromStr(table, s) ==
    LET a2 == AlphaFromStr(alpha_rs.alpha2.enum_body, s)
        a3 == AlphaFromStr(alpha_rs.alpha3.enum_body, s)
    IN  IF a2.ok
        THEN [ok |-> TRUE, handles |-> <<FromAlpha2(table, a2.val)>>,
              err |-> <<>>, parsed |-> <<"Alpha2">>]
        ELSE IF a3.ok
        THEN [ok |-> TRUE, handles |-> <<FromAlpha3(table, a3.val)>>,
              err |-> <<>>, parsed |-> <<"Alpha2", "Alpha3">>]
        ELSE [ok |-> FALSE, handles |-> <<>>, err |-> UnrecognizedCode(s),
              parsed |-> <<"Alpha2", "Alpha3">>]

\* Whether from_str reaches Jurisdiction::new, hence DEFINITIONS.
FromStrTouchesTable(s) ==
    \/ AlphaFromStr(alpha_rs.alpha2.enum_body, s).ok
    \/ AlphaFromStr(alpha_rs.alpha3.enum_body, s).ok

\* The generated jurisdictions() of one level: the vec! of the arm that
\* names the variant, each element a Jurisdiction::new.
jurisdictions(table, body, v) ==
    LET arm == CHOOSE arm \in body : arm.ident = v
        codes == arm.codes
    IN  [j \in DOMAIN codes |-> new(table, codes[j])]

\* Jurisdiction::in_region / in_sub_region / in_intermediate_region
in_region(table, v) == jurisdictions(table, region_rs.region_body, v)
in_sub_region(table, v) == jurisdictions(table, region_rs.sub_body, v)
in_intermediate_region(table, v) ==
    jurisdictions(table, region_rs.intermediate_body, v)

(***************************************************************************)
(* lazy_static! DEFINITIONS: the Once and the initializer block.           *)
(***************************************************************************)
\* OnceMayRun as it would be for an initializer guarded by a plain
\* "not yet complete" test: a second thread enters while the first runs.
OnceMayRunUnlessComplete(state) == state # "COMPLETE"

\* Once::call_once runs its closure only from the state INCOMPLETE.
OnceMayRun(state) == state = "INCOMPLETE"

\* The fast path of a dereference: the Once is COMPLETE.
OnceCompleted(state) == state = "COMPLETE"

\* A dereference of DEFINITIONS before the Once is complete: the first
\* thread enters the initializer block, any other waits for it.
CallOnce(t) ==
    /\ pc = "built"
    /\ tpc[t] = "idle"
    /\ ~OnceCompleted(once)
    /\ IF OnceMayRun(once)
       THEN /\ once' = "RUNNING"
            /\ builds' = builds + 1
            /\ tpc' = [tpc EXCEPT ![t] = "init"]
            /\ map' = [map EXCEPT ![t] = EmptyMap]
            /\ cursor' = [cursor EXCEPT ![t] = 1]
       ELSE /\ tpc' = [tpc EXCEPT ![t] = "blocked"]
            /\ UNCHANGED <<once, builds, map, cursor>>
    /\ UNCHANGED <<buildVars, DEFINITIONS, observed, last>>

\* One turn of `for def in GENERATED_DEFINITIONS.iter()`:
\* map.insert(def.country_code, def).
InitInsert(t) ==
    /\ tpc[t] = "init"
    /\ cursor[t] <= Len(GENERATED_DEFINITIONS)
    /\ map' = [map EXCEPT ![t] =
                  HashMapInsert(map[t],
                                GENERATED_DEFINITIONS[cursor[t]].country_code,
                                cursor[t])]
    /\ cursor' = [cursor EXCEPT ![t] = cursor[t] + 1]
    /\ UNCHANGED <<buildVars, once, DEFINITIONS, builds, tpc, observed,
                   last>>

\* The block ends: `map` is moved into DEFINITIONS, the Once is COMPLETE,
\* and the dereference returns.
InitPublish(t) ==
    /\ tpc[t] = "init"
    /\ cursor[t] > Len(GENERATED_DEFINITIONS)
    /\ DEFINITIONS' = map[t]
    /\ once' = "COMPLETE"
    /\ tpc' = [tpc EXCEPT ![t] = "idle"]
    /\ map' = [map EXCEPT ![t] = EmptyMap]
    /\ observed' = [observed EXCEPT ![t] = <<map[t]>>]
    /\ UNCHANGED <<buildVars, builds, cursor, last>>

\* A waiting thread's dereference returns once the Once is COMPLETE.
Unblock(t) ==
    /\ tpc[t] = "blocked"
    /\ OnceCompleted(once)
    /\ tpc' = [tpc EXCEPT ![t] = "idle"]
    /\ observed' = [observed EXCEPT ![t] = <<DEFINITIONS>>]
    /\ UNCHANGED <<buildVars, once, DEFINITIONS, builds, map, cursor, last>>

(***************************************************************************)
(* Calls of the public API.  `last` holds one call and its result until    *)
(* Drop.  A call that reaches Jurisdiction::new dereferences DEFINITIONS   *)
(* on the fast path here; before the Once is complete its dereference is   *)
(* CallOnce, followed by InitInsert and InitPublish or by Unblock.         *)
(***************************************************************************)
Call(op, arg, ok, handles, eq, err) ==
    [op |-> op, arg |-> arg, ok |-> ok, handles |-> handles, eq |-> eq,
     err |-> err, parsed |-> <<>>]

\* A thread that may call the API: the crate is built, the thread is not
\* inside a dereference, and the result of the previous call is dropped.
MayCall(t) ==
    /\ pc = "built"
    /\ tpc[t] = "idle"
    /\ last = NoCall

\* A thread whose call dereferences DEFINITIONS and gets the table at once.
Dereferences(t) ==
    /\ MayCall(t)
    /\ OnceCompleted(once)

\* The positions whose variants CallEq compares: the first two records and
\* the records after the base dataset.
EqProbe == {1, 2} \cup {i \in DOMAIN file : i >= Len(BaseDataset)}

\* Jurisdiction::from(alpha2) as it would be if Jurisdiction::new took the
\* entry out of the map (HashMap::remove) where it reads it (HashMap::get).
CallFromAlpha2Removing(t) ==
    /\ Dereferences(t)
    /\ \E a \in Alpha2 :
          /\ last' = Call("from_alpha2", <<a>>, TRUE,
                          <<FromAlpha2(DEFINITIONS, a)>>, FALSE, <<>>)
          /\ DEFINITIONS' =
                [k \in DOMAIN DEFINITIONS \ {MatchAlpha(alpha_rs.alpha2, a)}
                    |-> DEFINITIONS[k]]
    /\ UNCHANGED <<buildVars, once, builds, map, cursor, observed, tpc>>

\* Jurisdiction::from(alpha2)
CallFromAlpha2(t) ==
    /\ Dereferences(t)
    /\ \E a \in Alpha2 :
          last' = Call("from_alpha2", <<a>>, TRUE,
                       <<FromAlpha2(DEFINITIONS, a)>>, FALSE, <<>>)
    /\ UNCHANGED <<buildVars, lazyVars, tpc>>

\* Jurisdiction::from(alpha3)
CallFromAlpha3(t) ==
    /\ Dereferences(t)
    /\ \E a \in Alpha3 :
          last' = Call("from_alpha3", <<a>>, TRUE,
                       <<FromAlpha3(DEFINITIONS, a)>>, FALSE, <<>>)
    /\ UNCHANGED <<buildVars, lazyVars, tpc>>

\* Jurisdiction::from_str(s), for a text one of the parses accepts.
CallFromStrOk(t) ==
    /\ Dereferences(t)
    /\ \E s \in Texts :
          /\ FromStrTouchesTable(s)
          /\ LET r == FromStr(DEFINITIONS, s)
             IN  last' = [Call("from_str", <<s>>, r.ok, r.handles, FALSE,
                                   r.err) EXCEPT !.parsed = r.parsed]
    /\ UNCHANGED <<buildVars, lazyVars, tpc>>

\* Jurisdiction::from_str(s), for a text both parses reject: DEFINITIONS is
\* not dereferenced.
CallFromStrErr(t) ==
    /\ MayCall(t)
    /\ \E s \in Texts :
          /\ ~FromStrTouchesTable(s)
          /\ LET r == FromStr(DEFINITIONS, s)
             IN  last' = [Call("from_str", <<s>>, r.ok, r.handles, FALSE,
                                   r.err) EXCEPT !.parsed = r.parsed]
    /\ UNCHANGED <<buildVars, lazyVars, tpc>>

\* Jurisdiction::in_region(region)
CallInRegion(t) ==
    /\ Dereferences(t)
    /\ \E v \in Range(Region) :
          last' = Call("in_region", <<v>>, TRUE,
                       in_region(DEFINITIONS, v), FALSE, <<>>)
    /\ UNCHANGED <<buildVars, lazyVars, tpc>>

\* Jurisdiction::in_sub_region(sub)
CallInSubRegion(t) ==
    /\ Dereferences(t)
    /\ \E v \in Range(SubRegion) :
          last' = Call("in_sub_region", <<v>>, TRUE,
                       in_sub_region(DEFINITIONS, v), FALSE, <<>>)
    /\ UNCHANGED <<buildVars, lazyVars, tpc>>

\* Jurisdiction::in_intermediate_region(inter)
CallInIntermediateRegion(t) ==
    /\ Dereferences(t)
    /\ \E v \in Range(IntermediateRegion) :
          last' = Call("in_intermediate_region", <<v>>, TRUE,
                       in_intermediate_region(DEFINITIONS, v), FALSE, <<>>)
    /\ UNCHANGED <<buildVars, lazyVars, tpc>>

\* Jurisdiction::from(alpha2) == Jurisdiction::from(alpha3)
CallEq(t) ==
    /\ Dereferences(t)
    /\ \E a \in Alpha2 \cap EqProbe, b \in Alpha3 \cap EqProbe :
          LET ha == FromAlpha2(DEFINITIONS, a)
              hb == FromAlpha3(DEFINITIONS, b)
          IN  last' = Call("eq", <<a, b>>, TRUE, <<ha, hb>>,
                           ~ha.panic /\ ~hb.panic /\ EqJurisdiction(ha, hb),
                           <<>>)
    /\ UNCHANGED <<buildVars, lazyVars, tpc>>

\* The caller drops the value the latest call returned.
Drop ==
    /\ last # NoCall
    /\ last' = NoCall
    /\ UNCHANGED <<buildVars, lazyVars, tpc>>

Next ==
    \/ MainAlpha
    \/ MainRegion
    \/ MainDefinition
    \/ Rustc
    \/ \E t \in Threads : CallOnce(t)
    \/ \E t \in Threads : InitInsert(t)
    \/ \E t \in Threads : InitPublish(t)
    \/ \E t \in Threads : Unblock(t)
    \/ \E t \in Threads : CallFromAlpha2(t)
    \/ \E t \in Threads : CallFromAlpha3(t)
    \/ \E t \in Threads : CallFromStrOk(t)
    \/ \E t \in Threads : CallFromStrErr(t)
    \/ \E t \in Threads : CallInRegion(t)
    \/ \E t \in Threads : CallInSubRegion(t)
    \/ \E t \in Threads : CallInIntermediateRegion(t)
    \/ \E t \in Threads : CallEq(t)
    \/ Drop

Spec == Init /\ [][Next]_vars

(***************************************************************************)
(* Properties.                                                             *)
(***************************************************************************)
\* The crate is built and the registry is constructed.
Ready == pc = "built" /\ OnceCompleted(once)

\* The Definition record i of the dataset compiles to, with its alpha codes
\* as variants.
DefinitionOf(i) ==
    [GENERATED_DEFINITIONS[i] EXCEPT
        !.alpha2 = VariantOf(alpha_rs.alpha2.enum_body, @),
        !.alpha3 = VariantOf(alpha_rs.alpha3.enum_body, @)]

\* What the accessors read through a handle.
Getters(h) ==
    [country_code |-> country_code(h),
     name |-> name(h),
     alpha2 |-> alpha2(h),
     alpha3 |-> alpha3(h),
     region |-> region(h),
     sub_region |-> sub_region(h),
     intermediate_region |-> intermediate_region(h),
     region_code |-> region_code(h),
     sub_region_code |-> sub_region_code(h),
     intermediate_region_code |-> intermediate_region_code(h)]

\* Two records of the dataset carry the same numeric country code.
HasDuplicateCountryCode ==
    LET parsed == {i \in DOMAIN file : CountryCode(file[i]).ok}
        codes == {CountryCode(file[i]).val : i \in parsed}
    IN  Cardinality(codes) < Cardinality(parsed)

\* C1: for every Definition D of the compiled table, Jurisdiction::new of
\* D.country_code gives a handle whose country_code, name, alpha2, alpha3,
\* region, sub_region, intermediate_region and the three hierarchy codes
\* are D's.
C1_LookupReturnsItsDefinition ==
    Ready =>
        \A d \in DOMAIN GENERATED_DEFINITIONS :
            LET h == new(DEFINITIONS, GENERATED_DEFINITIONS[d].country_code)
            IN  /\ ~h.panic
                /\ Getters(h) = DefinitionOf(d)

\* C2: Jurisdiction::from of an Alpha2 (Alpha3) variant never fails, and
\* its handle has alpha2() (alpha3()) equal to the variant, compares equal
\* to it and unequal to every other variant.
C2_FromAlphaIsTotalAndFaithful ==
    /\ last.op = "from_alpha2" =>
          LET a == last.arg[1]
              h == last.handles[1]
          IN  /\ ~h.panic
              /\ alpha2(h) = a
              /\ \A other \in Alpha2 : EqAlpha2(h, other) <=> other = a
    /\ last.op = "from_alpha3" =>
          LET a == last.arg[1]
              h == last.handles[1]
          IN  /\ ~h.panic
              /\ alpha3(h) = a
              /\ \A other \in Alpha3 : EqAlpha3(h, other) <=> other = a

\* The texts that are the alpha-2 (alpha-3) code of a record.
Alpha2Texts == {file[i].alpha2 : i \in DOMAIN file}
Alpha3Texts == {file[i].alpha3 : i \in DOMAIN file}

\* C3: from_str of the canonical text of an Alpha2 variant succeeds and the
\* handle's alpha2() formats back to the text; from_str of the canonical
\* text of an Alpha3 variant succeeds and the handle's alpha3() formats
\* back to the text.
C3_FromStrRoundTrip ==
    last.op = "from_str" =>
        LET s == last.arg[1]
        IN  /\ s \in Alpha2Texts =>
                /\ last.ok
                /\ ~last.handles[1].panic
                /\ AlphaToString(alpha_rs.alpha2.enum_body,
                                 alpha2(last.handles[1])) = s
            /\ s \in Alpha3Texts =>
                /\ last.ok
                /\ ~last.handles[1].panic
                /\ AlphaToString(alpha_rs.alpha3.enum_body,
                                 alpha3(last.handles[1])) = s

\* C4: from_str of a text that is not exactly the alpha-2 or alpha-3 code
\* of a record fails, with the unrecognized-code error made of that very
\* text, and gives no handle.
C4_FromStrRejectsOtherTexts ==
    last.op = "from_str" =>
        LET s == last.arg[1]
        IN  s \notin Alpha2Texts \cup Alpha3Texts =>
                /\ ~last.ok
                /\ last.handles = <<>>
                /\ last.err = UnrecognizedCode(s)
                /\ last.err[2] = s

\* C4 witness: from_str("no"), the lower-case form of a code of the dataset,
\* has failed.
C4_Witness ==
    /\ last.op = "from_str"
    /\ last.arg = <<"no">>
    /\ "NO" \in Alpha2Texts
    /\ ~last.ok

\* C5: two handles compare equal exactly when their country codes are
\* equal; the handle from a record's Alpha2 variant equals the handle from
\* its Alpha3 variant; handles of two different records are never equal.
C5_EqualityIsByRecord ==
    last.op = "eq" =>
        LET a == last.arg[1]
            b == last.arg[2]
            ha == last.handles[1]
            hb == last.handles[2]
        IN  /\ ~ha.panic /\ ~hb.panic
            /\ last.eq <=> (country_code(ha) = country_code(hb))
            /\ a = b => last.eq
            /\ a # b => ~last.eq

\* The number of Definitions whose field `level` is v.
CountOf(level, v) ==
    Cardinality({d \in DOMAIN GENERATED_DEFINITIONS :
                    GENERATED_DEFINITIONS[d][level] = v})

\* C6: every handle a reverse query for V returns has its field equal to
\* V, and the query returns as many handles as there are Definitions whose
\* field is V.
C6_ReverseQuerySoundAndComplete ==
    /\ last.op = "in_region" =>
          /\ \A n \in DOMAIN last.handles :
                /\ ~last.handles[n].panic
                /\ region(last.handles[n]) = last.arg[1]
          /\ Len(last.handles) = CountOf("region", last.arg[1])
    /\ last.op = "in_sub_region" =>
          /\ \A n \in DOMAIN last.handles :
                /\ ~last.handles[n].panic
                /\ sub_region(last.handles[n]) = last.arg[1]
          /\ Len(last.handles) = CountOf("sub_region", last.arg[1])
    /\ last.op = "in_intermediate_region" =>
          /\ \A n \in DOMAIN last.handles :
                /\ ~last.handles[n].panic
                /\ intermediate_region(last.handles[n]) = last.arg[1]
          /\ Len(last.handles) = CountOf("intermediate_region", last.arg[1])

\* The fixed named values of the three levels, as the dataset writes them.
RegionNames == {"Africa", "Asia", "Europe", "Oceania", "Americas"}
SubRegionNames ==
    {"Northern Africa", "Sub-Saharan Africa", "Eastern Asia", "Southern Asia",
     "South-eastern Asia", "Western Asia", "Central Asia", "Northern America",
     "Latin America and the Caribbean", "Northern Europe", "Eastern Europe",
     "Southern Europe", "Western Europe", "Polynesia", "Melanesia",
     "Micronesia", "Australia and New Zealand"}
IntermediateRegionNames ==
    {"Eastern Africa", "Middle Africa", "Southern Africa", "Western Africa",
     "Caribbean", "Central America", "South America", "Channel Islands"}

\* C7 for one level: a record whose name at that level is none of the
\* fixed values compiles to Undefined, the handle made from its Alpha2
\* variant reports Undefined, and the reverse query for Undefined returns
\* a handle equal to that jurisdiction's.
UndefinedAtLevel(level, names, query) ==
    \A i \in DOMAIN file :
        file[i][level] \notin names =>
            /\ pc \in {"rustc", "built"} =>
                  GENERATED_DEFINITIONS[i][level] = "Undefined"
            /\ (last.op = "from_alpha2" /\ last.arg = <<i>>) =>
                  /\ ~last.handles[1].panic
                  /\ Getters(last.handles[1])[level] = "Undefined"
            /\ (last.op = query /\ last.arg = <<"Undefined">>) =>
                  \E n \in DOMAIN last.handles :
                      /\ ~last.handles[n].panic
                      /\ country_code(last.handles[n])
                            = GENERATED_DEFINITIONS[i].country_code

\* C7: at each of the three levels.
C7_UnknownNameIsUndefined ==
    /\ UndefinedAtLevel("region", RegionNames, "in_region")
    /\ UndefinedAtLevel("sub_region", SubRegionNames, "in_sub_region")
    /\ UndefinedAtLevel("intermediate_region", IntermediateRegionNames,
                        "in_intermediate_region")

\* The source intermediate-region code of a record is the sentinel: empty,
\* or the number 0.
IsSentinel(text) ==
    text = <<>> \/ (U16FromStr(text).ok /\ U16FromStr(text).val = 0)

\* C8: intermediate_region_code() of a record's handle is None exactly
\* when the record's source intermediate-region code is the sentinel 0
\* (empty), and Some(n) of the source value n otherwise.
C8_IntermediateCodeAbsentIffSentinel ==
    last.op = "from_alpha2" =>
        LET text == file[last.arg[1]].intermediate_region_code
            h == last.handles[1]
        IN  /\ ~h.panic
            /\ IsSentinel(text) <=> intermediate_region_code(h) = None
            /\ ~IsSentinel(text) =>
                  /\ U16FromStr(text).ok
                  /\ intermediate_region_code(h) = Some(U16FromStr(text).val)

\* The table that holds every Definition of GENERATED_DEFINITIONS: each
\* country code, with the Definition inserted for it last.
FullTable ==
    [c \in {GENERATED_DEFINITIONS[d].country_code :
                d \in DOMAIN GENERATED_DEFINITIONS} |->
        LET carrying == {d \in DOMAIN GENERATED_DEFINITIONS :
                            GENERATED_DEFINITIONS[d].country_code = c}
        IN  CHOOSE d \in carrying : \A e \in carrying : e <= d]

\* C9: the initializer block of DEFINITIONS is entered at most once and by
\* one thread at a time; a dereference returns only the complete table,
\* the same to every thread; no call looks a country code up in anything
\* less.
C9_RegistryBuiltExactlyOnce ==
    /\ builds <= 1
    /\ Cardinality({t \in Threads : tpc[t] = "init"}) <= 1
    /\ Cardinality({t \in Threads : tpc[t] = "init"}) = 1 <=> once = "RUNNING"
    /\ once = "COMPLETE" => builds = 1 /\ DEFINITIONS = FullTable
    /\ \A t \in Threads : observed[t] # <<>> => observed[t] = <<FullTable>>
    /\ \A n \in DOMAIN last.handles :
          /\ once = "COMPLETE"
          /\ ~last.handles[n].panic

\* C9 witness: one thread has built the table while the other waited, both
\* dereferences have returned, and a call has looked a country code up.
C9_Witness ==
    /\ \A t \in Threads : observed[t] # <<>>
    /\ builds = 1
    /\ last.op = "from_alpha3"
    /\ last.handles # <<>>

\* C10: a dataset in which two records carry the same numeric country code
\* is never built, so the registry holds as many entries as there are
\* Definitions in GENERATED_DEFINITIONS.
C10_DuplicateCountryCodeAborts ==
    /\ HasDuplicateCountryCode => pc # "built"
    /\ OnceCompleted(once) =>
          Cardinality(DOMAIN DEFINITIONS) = Len(GENERATED_DEFINITIONS)

\* The build has gone past the parse of the country codes without a panic.
PastCountryCodes == pc \in {"region", "definition", "rustc", "built", "rejected"}

\* The build has emitted GENERATED_DEFINITIONS.
DefinitionsEmitted == pc \in {"rustc", "built", "rejected"}

\* No thread has used the compiled crate yet: the state is the build's.
RuntimeNotStarted == builds = 0 /\ last = NoCall

\* The u16 a source text compiles to where the code falls back to 0.
ParsedOrZero(text) == IF U16FromStr(text).ok THEN U16FromStr(text).val ELSE 0

\* C11 (as the code has it): only the country code is parsed strictly.  A
\* record whose country code is no u16 panics the build before any file is
\* written, and nothing else does; a region or sub-region code that is no
\* u16 compiles to 0, and an intermediate-region code that is no u16, or
\* is 0, compiles to None, every other one to Some of its value.  Stated of
\* the build's output, before the crate is used.
C11_OnlyCountryCodeIsFatal ==
    /\ pc = "panicked" =>
          /\ \E i \in DOMAIN file : ~U16FromStr(file[i].country_code).ok
          /\ written = {}
    /\ (PastCountryCodes /\ RuntimeNotStarted) =>
          \A i \in DOMAIN file : U16FromStr(file[i].country_code).ok
    /\ (DefinitionsEmitted /\ RuntimeNotStarted) =>
          \A i \in DOMAIN file :
              LET d == GENERATED_DEFINITIONS[i]
                  irc == ParsedOrZero(file[i].intermediate_region_code)
              IN  /\ d.country_code = U16FromStr(file[i].country_code).val
                  /\ d.region_code = ParsedOrZero(file[i].region_code)
                  /\ d.sub_region_code = ParsedOrZero(file[i].sub_region_code)
                  /\ d.intermediate_region_code
                        = IF irc = 0 THEN None ELSE Some(irc)

\* C11 witness: a crate is built from a dataset with a record whose region
\* code is "abc" and whose sub-region code is 99999; both compiled to 0.
C11_Witness ==
    /\ pc = "built"
    /\ \E i \in DOMAIN file :
          /\ file[i].region_code = <<"a", "b", "c">>
          /\ ~U16FromStr(file[i].sub_region_code).ok
          /\ GENERATED_DEFINITIONS[i].region_code = 0
          /\ GENERATED_DEFINITIONS[i].sub_region_code = 0

\* C11 as the specification states it: a build that has not panicked has
\* no record whose country code, region code or sub-region code fails to
\* parse as a u16.
C11_UnparsableCodeIsFatal ==
    (PastCountryCodes /\ RuntimeNotStarted) =>
        \A i \in DOMAIN file :
            /\ U16FromStr(file[i].country_code).ok
            /\ U16FromStr(file[i].region_code).ok
            /\ U16FromStr(file[i].sub_region_code).ok

\* How many elements of a reverse query's result are handles to the
\* Definition d.
Appearances(handles, d) ==
    Cardinality({n \in DOMAIN handles :
                    ~handles[n].panic /\ handles[n].definition = d})

\* The results of the reverse queries of one level partition the table:
\* every Definition is in the result for exactly one value, once.
PartitionedBy(body, variants) ==
    \A d \in DOMAIN GENERATED_DEFINITIONS :
        LET holding ==
                {v \in Range(variants) :
                    Appearances(jurisdictions(DEFINITIONS, body, v), d) > 0}
        IN  /\ Cardinality(holding) = 1
            /\ \A v \in holding :
                  Appearances(jurisdictions(DEFINITIONS, body, v), d) = 1

\* C12: once a reverse query of a level has been answered, every
\* Definition of the compiled table is in the result of that level's query
\* for exactly one value (Undefined included), and exactly once in it.
C12_ReverseBucketsPartition ==
    /\ last.op = "in_region" =>
          PartitionedBy(region_rs.region_body, Region)
    /\ last.op = "in_sub_region" =>
          PartitionedBy(region_rs.sub_body, SubRegion)
    /\ last.op = "in_intermediate_region" =>
          PartitionedBy(region_rs.intermediate_body, IntermediateRegion)

\* The handles of the records whose field `level` is v, in dataset order.
HandlesInFeedOrder(level, v) ==
    LET at == IndicesOf(Deserialize(file), level, v)
    IN  [j \in DOMAIN at |-> Handle(at[j])]

\* The answer of a reverse query is the one the crate would give had
\* region.rs been generated with the HashMaps iterated in any other order,
\* and it lists the handles of the value's records in dataset order.
DeterministicAnswer(level, variants) ==
    /\ LET gathered == GatherCodes(Deserialize(file), level)
       IN  \A order \in HashOrders(gathered, variants) :
              /\ order \in HashIter(gathered)
              /\ last.handles =
                    jurisdictions(DEFINITIONS,
                                  Arms(MatchBody(gathered, order)),
                                  last.arg[1])
    /\ last.handles = HandlesInFeedOrder(level, last.arg[1])

\* C13: the list a reverse query returns does not depend on the order in
\* which build.rs iterated its HashMaps, and holds the handles of the
\* records carrying the value in the order of the dataset.
C13_ReverseQueryOrderIsFeedOrder ==
    /\ last.op = "in_region" => DeterministicAnswer("region", Region)
    /\ last.op = "in_sub_region" =>
          DeterministicAnswer("sub_region", SubRegion)
    /\ last.op = "in_intermediate_region" =>
          DeterministicAnswer("intermediate_region", IntermediateRegion)

\* C14: from_str runs the Alpha2 parse first.  A text that is an Alpha2
\* variant's name gives Jurisdiction::from of that variant and the Alpha3
\* parse is not run; the Alpha3 parse is run only after the Alpha2 parse
\* has failed, and then decides the result.
C14_Alpha2ParseComesFirst ==
    last.op = "from_str" =>
        LET s == last.arg[1]
            a2 == AlphaFromStr(alpha_rs.alpha2.enum_body, s)
            a3 == AlphaFromStr(alpha_rs.alpha3.enum_body, s)
        IN  /\ last.parsed[1] = "Alpha2"
            /\ a2.ok =>
                  /\ last.ok
                  /\ last.handles = <<FromAlpha2(DEFINITIONS, a2.val)>>
                  /\ last.parsed = <<"Alpha2">>
            /\ "Alpha3" \in Range(last.parsed) =>
                  /\ ~a2.ok
                  /\ last.parsed = <<"Alpha2", "Alpha3">>
                  /\ last.ok <=> a3.ok
                  /\ a3.ok =>
                        last.handles = <<FromAlpha3(DEFINITIONS, a3.val)>>

\* C14 witness: the dataset has the text "NOR" as one record's alpha-2
\* code and as another record's alpha-3 code, and from_str("NOR") has
\* returned the former's jurisdiction without running the Alpha3 parse.
C14_Witness ==
    /\ last.op = "from_str"
    /\ last.arg = <<"NOR">>
    /\ "NOR" \in Alpha2Texts \cap Alpha3Texts
    /\ last.parsed = <<"Alpha2">>
    /\ last.handles
          # <<FromAlpha3(DEFINITIONS,
                         VariantOf(alpha_rs.alpha3.enum_body, "NOR"))>>

\* C15: once the crate is built the generated tables never change, and
\* once the registry is constructed it never changes and stays
\* constructed, whatever is called and from whichever thread.
C15_TablesAreImmutable ==
    [][/\ pc = "built" =>
            /\ pc' = "built"
            /\ definition_rs' = definition_rs
            /\ alpha_rs' = alpha_rs
            /\ region_rs' = region_rs
       /\ OnceCompleted(once) =>
            /\ OnceCompleted(once')
            /\ DEFINITIONS' = DEFINITIONS
            /\ DOMAIN DEFINITIONS' = DOMAIN DEFINITIONS]_vars

\* C15 witness: both threads have dereferenced the registry, a reverse
\* query has been answered, and the registry is still the full table.
C15_Witness ==
    /\ Ready
    /\ \A t \in Threads : observed[t] # <<>>
    /\ last.op = "in_sub_region"
    /\ last.handles # <<>>
    /\ DEFINITIONS = FullTable

====
